---- MODULE Spec2Model ----
(***************************************************************************)
(* Model of server1.py: the websocket session handler handle(ws) and the   *)
(* accept loop of main().  One task per connection runs handle(); a task   *)
(* is at a suspension point (an awaited recv or send), inside the          *)
(* synchronous backend call, or finished (returned, or left by an          *)
(* exception).                                                             *)
(*                                                                         *)
(* Data.  A Python/JSON value is a record [kind, val]; val is a sequence   *)
(* of text chunks (a string is the sequence of its chunks, a chunk being   *)
(* one whitespace character or a run of other characters).  A dict has     *)
(* kind "object" and one field per key; a key that is not in the dict      *)
(* holds Absent.  Inbound text messages are taken to be within the         *)
(* decoder's resource limits (json.loads either returns a value or raises  *)
(* JSONDecodeError).                                                       *)
(***************************************************************************)
EXTENDS Naturals, Sequences, FiniteSets, TLC

(***************************************************************************)
(* Bounds of the exploration.                                              *)
(***************************************************************************)
\* messages a connection's task receives, the handshake included
MaxMsgs == 3
\* longest formatted traceback, in lines
MaxTraceLen == 6

\* lengths of the tracebacks tried: some within five lines, some beyond
TraceLens == (MaxTraceLen - 3)..MaxTraceLen

\* the connections one process accepts: two tasks share the event loop
Conns == {1, 2}
\* the single-session specification follows this connection
Sessions == {1}

(***************************************************************************)
(* Values.                                                                 *)
(***************************************************************************)
Absent == [kind |-> "absent", val |-> <<>>]
PyNone == [kind |-> "null", val |-> <<>>]
JStr(chunks) == [kind |-> "string", val |-> chunks]
JNum(numeral) == [kind |-> "number", val |-> <<numeral>>]
JArr == [kind |-> "array", val |-> <<>>]
EmptyDict == [kind |-> "object", val |-> <<>>]

SP == " "
Numerals == {"0.2", "0.5", "0.7", "5"}

SERVER_NAME == JStr(<<"sample-mcp-server">>)
CAPS == <<JStr(<<"llm.generate">>)>>
OPENAI_MODEL == JStr(<<"gpt-4o-mini">>)

\* dict.get(key): the default forgotten
GetWithoutDefault(d, key, default) ==
    IF key \notin DOMAIN d \/ d[key].kind = "absent" THEN PyNone ELSE d[key]

\* dict.get(key, default)
Get(d, key, default) ==
    IF key \notin DOMAIN d \/ d[key].kind = "absent" THEN default ELSE d[key]

\* str.strip(): drop leading and trailing whitespace chunks
RECURSIVE LStrip(_)
LStrip(s) == IF s # <<>> /\ Head(s) = SP THEN LStrip(Tail(s)) ELSE s

RECURSIVE RStrip(_)
RStrip(s) ==
    IF s # <<>> /\ s[Len(s)] = SP THEN RStrip(SubSeq(s, 1, Len(s) - 1)) ELSE s

Strip(s) == RStrip(LStrip(s))

\* str(x) rendering None the way JSON spells it
PyStrJsonNull(v) ==
    CASE v.kind = "string" -> v.val
      [] v.kind = "null"   -> <<"null">>
      [] v.kind = "number" -> v.val
      [] v.kind = "array"  -> <<"[]">>
      [] OTHER             -> <<"{...}">>

\* str(x) as an f-string renders it
PyStr(v) ==
    CASE v.kind = "string" -> v.val
      [] v.kind = "null"   -> <<"None">>
      [] v.kind = "number" -> v.val
      [] v.kind = "array"  -> <<"[]">>
      [] OTHER             -> <<"{...}">>

\* float(x): the value, or the exception it raises
PyFloat(v) ==
    CASE v.kind = "number" -> [ok |-> TRUE, exc |-> "none",
                               value |-> [kind |-> "float", val |-> v.val]]
      [] v.kind = "string" ->
            IF Len(Strip(v.val)) = 1 /\ Strip(v.val)[1] \in Numerals
            THEN [ok |-> TRUE, exc |-> "none",
                  value |-> [kind |-> "float", val |-> Strip(v.val)]]
            ELSE [ok |-> FALSE, exc |-> "ValueError", value |-> PyNone]
      [] OTHER -> [ok |-> FALSE, exc |-> "TypeError", value |-> PyNone]

(***************************************************************************)
(* Inbound text messages.  A text is well-formed JSON (wf) with document   *)
(* doc, or it is not JSON at all.                                          *)
(***************************************************************************)
PromptValues ==
    {Absent, JStr(<<>>), JStr(<<SP, SP, SP>>), JStr(<<"hi">>), JNum("5"), PyNone}
TemperatureValues == {Absent, JNum("0.7"), JStr(<<"0.5">>), JStr(<<"abc">>), PyNone}
FormatValues == {Absent, JStr(<<"html">>)}
\* system and model only travel to the backend: set together or not at all
Extras ==
    {[system |-> Absent, model |-> Absent],
     [system |-> JStr(<<"Be brief.">>), model |-> JStr(<<"gpt-4o">>)]}

ParamDicts ==
    {[kind |-> "object", val |-> <<>>, prompt |-> p, system |-> x.system,
      model |-> x.model, temperature |-> t, format |-> f] :
        p \in PromptValues, x \in Extras, t \in TemperatureValues,
        f \in FormatValues}

HiParams ==
    [kind |-> "object", val |-> <<>>, prompt |-> JStr(<<"hi">>), system |-> Absent,
     model |-> Absent, temperature |-> Absent, format |-> Absent]

ParamsValues == {Absent, PyNone} \cup ParamDicts
TypeValues == {Absent, JStr(<<"request">>), JStr(<<"notify">>)}
IdValues == {Absent, JStr(<<"r1">>)}
MethodValues == {Absent, JStr(<<"llm.generate">>), JStr(<<"ping">>)}

MsgDict(t, i, m, p) ==
    [kind |-> "object", val |-> <<>>, type |-> t, id |-> i, method |-> m,
     params |-> p]

\* every params value for the requests whose params are read, and a few
\* params values for every other combination of type, id and method
MsgDicts ==
    {MsgDict(JStr(<<"request">>), i, JStr(<<"llm.generate">>), p) :
        i \in IdValues, p \in ParamsValues}
    \cup {MsgDict(t, i, m, p) :
            t \in TypeValues, i \in IdValues, m \in MethodValues,
            p \in {Absent, PyNone, HiParams}}

NotJSON == [wf |-> FALSE, doc |-> Absent]
Text(doc) == [wf |-> TRUE, doc |-> doc]

Messages == {NotJSON, Text(JArr), Text(JStr(<<"hi">>))} \cup {Text(d) : d \in MsgDicts}

\* json.loads(text): the document, or JSONDecodeError
JsonLoads(text) ==
    IF text.wf THEN [ok |-> TRUE, value |-> text.doc]
    ELSE [ok |-> FALSE, value |-> Absent]

(***************************************************************************)
(* Outbound envelopes (the documents handed to json.dumps and ws.send).    *)
(***************************************************************************)
ErrorResult(id, code, message) ==
    [type |-> "result", id |-> id, ok |-> FALSE,
     error |-> [code |-> code, message |-> message]]

\* a ready announcement that lists no capability
ReadyWithoutCaps == [type |-> "ready", server |-> SERVER_NAME, capabilities |-> <<>>]

ReadyAnnouncement ==
    [type |-> "ready", server |-> SERVER_NAME, capabilities |-> CAPS]

\* usage.model_dump()
ModelDump(usage) ==
    [kind |-> "object", val |-> <<>>, total_tokens |-> JNum(usage.total_tokens)]

\* usage.model_dump() without the test for a missing usage
UsageMappingUnguarded(usage) == ModelDump(usage)

\* usage.model_dump() if usage else {}
UsageMapping(usage) == IF usage.cls = "NoneType" THEN EmptyDict ELSE ModelDump(usage)

SuccessResult(id, text, format, usage) ==
    [type |-> "result", id |-> id, ok |-> TRUE,
     data |-> [text |-> text, format |-> format, usage |-> UsageMapping(usage)]]

\* traceback.format_exc().splitlines(): the lines, numbered from the top
FormatExc(e) == [i \in 1..e.tb |-> i]

\* the trace left whole
Last5Untruncated(lines) == lines

\* lines[-5:]
Last5(lines) ==
    IF Len(lines) <= 5 THEN lines ELSE SubSeq(lines, Len(lines) - 4, Len(lines))

\* an LLMError envelope that forgets the request's id
LLMErrorResultUncorrelated(id, e) ==
    [type |-> "result", id |-> JStr(<<"unknown">>), ok |-> FALSE,
     error |-> [code |-> "LLMError", message |-> e.message,
                trace |-> Last5(FormatExc(e))]]

LLMErrorResult(id, e) ==
    [type |-> "result", id |-> id, ok |-> FALSE,
     error |-> [code |-> "LLMError", message |-> e.message,
                trace |-> Last5(FormatExc(e))]]

\* what kind of envelope this is: "ready", "ok" or the error code
Kind(env) ==
    IF env.type = "ready" THEN "ready"
    ELSE IF env.ok THEN "ok" ELSE env.error.code

(***************************************************************************)
(* The backend: chat.completions.create and the reading of its answer.     *)
(***************************************************************************)
NoUsage == [cls |-> "NoneType", total_tokens |-> "0"]
Usages == {NoUsage, [cls |-> "CompletionUsage", total_tokens |-> "5"]}
Completions ==
    {[text |-> t, usage |-> u] : t \in {JStr(<<"hello">>), PyNone}, u \in Usages}
BackendErrors ==
    {[cls |-> "APIError", message |-> <<"boom">>, tb |-> n] : n \in TraceLens}
ClosedErrors ==
    {[cls |-> "ConnectionClosed", message |-> <<"no close frame received or sent">>,
      tb |-> n] : n \in TraceLens}

(***************************************************************************)
(* State.                                                                  *)
(***************************************************************************)
VARIABLES
    pc,      \* per connection: where its handle() task stands
    open,    \* per connection: the transport is still open
    cur,     \* the text the task received last
    frame,   \* the locals of the llm.generate branch (lines 71-81)
    out,     \* the envelope of the send the task is suspended in
    err,     \* the exception that left handle(), "none" otherwise
    reply,   \* what the backend call of the current request came to
    res,     \* envelopes delivered since the last receive
    tries,   \* sends attempted since the last receive
    called,  \* the backend was invoked since the last receive
    nrecv,   \* messages received on the connection so far
    prev     \* kind of the last envelope delivered for the message before

vars == <<pc, open, cur, frame, out, err, reply, res, tries, called, nrecv, prev>>

NoText == [wf |-> FALSE, doc |-> [kind |-> "nothing", val |-> <<>>]]
NoEnv == [type |-> "none"]
NoReply == [status |-> "none"]
NoFrame ==
    [req_id |-> Absent, prompt |-> Absent, system |-> Absent, model |-> Absent,
     temperature |-> Absent, format_ |-> Absent]

RecvPcs == {"recv25", "recv47"}
SendPcs == {"send29", "send38", "send54", "send63", "send84", "send104",
            "send115", "send127"}
EndPcs == {"returned", "raised"}

\* the loop is blocked while some other task is inside the synchronous call
LoopFree(c) == \A d \in Conns \ {c} : pc[d] # "call94"

Goto(label, env, fr) == [pc |-> label, out |-> env, err |-> "none", frame |-> fr]
Raise(exc) == [pc |-> "raised", out |-> NoEnv, err |-> exc, frame |-> NoFrame]

\* a handshake that announces ready without decoding the first text
HandshakeBodyUnchecked(text) == Goto("send38", ReadyAnnouncement, NoFrame)

(***************************************************************************)
(* Lines 25-42: the handshake, from the first text to the send it ends in. *)
(***************************************************************************)
HandshakeBody(text) ==
    IF ~JsonLoads(text).ok
    THEN Goto("send29",
              ErrorResult(JStr(<<"init">>), "BadJSON", <<"Initialize must be JSON">>),
              NoFrame)
    ELSE Goto("send38", ReadyAnnouncement, NoFrame)

(***************************************************************************)
(* Lines 75-132: dispatch of a decoded request by method.                  *)
(***************************************************************************)
Generate(req_id, params) ==
    IF params.kind # "object" THEN Raise("AttributeError")           \* line 77
    ELSE
      LET prompt == Get(params, "prompt", JStr(<<>>))
          system == Get(params, "system", JStr(<<"You are a helpful assistant.">>))
          model == Get(params, "model", OPENAI_MODEL)
          temperature == PyFloat(Get(params, "temperature", JNum("0.2")))
          format_ == Get(params, "format", JStr(<<"markdown">>))
      IN  IF ~temperature.ok THEN Raise(temperature.exc)              \* line 80
          ELSE IF prompt.kind # "string" THEN Raise("AttributeError") \* line 83
          ELSE IF Strip(prompt.val) = <<>>
          THEN Goto("send84",
                    ErrorResult(req_id, "BadRequest", <<"prompt is required">>),
                    NoFrame)
          ELSE Goto("call94", NoEnv,
                    [req_id |-> req_id, prompt |-> prompt, system |-> system,
                     model |-> model, temperature |-> temperature.value,
                     format_ |-> format_])

\* a dispatch with no else branch: an unknown method is dropped unanswered
DispatchSilent(msg) ==
    LET req_id == Get(msg, "id", JStr(<<"unknown">>))
        method == Get(msg, "method", PyNone)
        params == Get(msg, "params", EmptyDict)
    IN  IF method = JStr(<<"llm.generate">>)
        THEN Generate(req_id, params)
        ELSE Goto("recv47", NoEnv, NoFrame)

Dispatch(msg) ==
    LET req_id == Get(msg, "id", JStr(<<"unknown">>))
        method == Get(msg, "method", PyNone)
        params == Get(msg, "params", EmptyDict)
    IN  IF method = JStr(<<"llm.generate">>)
        THEN Generate(req_id, params)
        ELSE Goto("send127",
                  ErrorResult(req_id, "NoSuchMethod",
                              <<"Unknown method ">> \o PyStr(method)),
                  NoFrame)

(***************************************************************************)
(* Lines 51-132: one turn of the serve loop, from the received text to the *)
(* next suspension point or to the exception that leaves handle().         *)
(***************************************************************************)
ServeBody(text) ==
    IF ~JsonLoads(text).ok
    THEN Goto("send54",
              ErrorResult(JStr(<<"unknown">>), "BadJSON", <<"Request must be JSON">>),
              NoFrame)
    ELSE
      LET msg == JsonLoads(text).value
      IN  IF msg.kind # "object" THEN Raise("AttributeError")        \* line 62
          ELSE IF Get(msg, "type", PyNone) # JStr(<<"request">>)
          THEN Goto("send63",
                    ErrorResult(Get(msg, "id", JStr(<<"unknown">>)), "BadRequest",
                                <<"Expected type=request">>),
                    NoFrame)
          ELSE Dispatch(msg)

\* the loop's BadJSON answer made as fatal as the handshake's
AfterSendJSONFatal(label) ==
    IF label \in {"send29", "send54"} THEN "returned" ELSE "recv47"

\* where handle() goes on after a send has completed
AfterSend(label) == IF label = "send29" THEN "returned" ELSE "recv47"

(***************************************************************************)
(* Initial state: the server listens and no connection has been accepted.  *)
(***************************************************************************)
Init ==
    /\ pc = [c \in Conns |-> "idle"]
    /\ open = [c \in Conns |-> FALSE]
    /\ cur = [c \in Conns |-> NoText]
    /\ frame = [c \in Conns |-> NoFrame]
    /\ out = [c \in Conns |-> NoEnv]
    /\ err = [c \in Conns |-> "none"]
    /\ reply = [c \in Conns |-> NoReply]
    /\ res = [c \in Conns |-> <<>>]
    /\ tries = [c \in Conns |-> 0]
    /\ called = [c \in Conns |-> FALSE]
    /\ nrecv = [c \in Conns |-> 0]
    /\ prev = [c \in Conns |-> "none"]

(***************************************************************************)
(* Actions.                                                                *)
(***************************************************************************)
\* websockets.serve accepts a connection and starts handle(ws) for it
Accept(c) ==
    /\ pc[c] = "idle"
    /\ LoopFree(c)
    /\ pc' = [pc EXCEPT ![c] = "recv25"]
    /\ open' = [open EXCEPT ![c] = TRUE]
    /\ UNCHANGED <<cur, frame, out, err, reply, res, tries, called, nrecv, prev>>

\* the peer (or the network) closes the transport under a running session
ClientClose(c) ==
    /\ open[c]
    /\ pc[c] \notin EndPcs
    /\ open' = [open EXCEPT ![c] = FALSE]
    /\ UNCHANGED <<pc, cur, frame, out, err, reply, res, tries, called, nrecv, prev>>

\* what every completed receive records
Received(c, text) ==
    /\ cur' = [cur EXCEPT ![c] = text]
    /\ nrecv' = [nrecv EXCEPT ![c] = @ + 1]
    /\ prev' = [prev EXCEPT ![c] =
                    IF res[c] = <<>> THEN "none" ELSE Kind(res[c][Len(res[c])])]
    /\ res' = [res EXCEPT ![c] = <<>>]
    /\ tries' = [tries EXCEPT ![c] = 0]
    /\ called' = [called EXCEPT ![c] = FALSE]
    /\ reply' = [reply EXCEPT ![c] = NoReply]

Enter(c, step) ==
    /\ pc' = [pc EXCEPT ![c] = step.pc]
    /\ out' = [out EXCEPT ![c] = step.out]
    /\ err' = [err EXCEPT ![c] = step.err]
    /\ frame' = [frame EXCEPT ![c] = step.frame]

\* a handshake that treats a first text of type "request" as a request
RecvInitDispatching(c, text) ==
    /\ pc[c] = "recv25"
    /\ open[c]
    /\ LoopFree(c)
    /\ nrecv[c] < MaxMsgs
    /\ Received(c, text)
    /\ Enter(c, IF text.wf /\ text.doc.kind = "object"
                    /\ text.doc.type = JStr(<<"request">>)
                 THEN ServeBody(text) ELSE HandshakeBody(text))
    /\ UNCHANGED open

\* line 25 returns the first text; lines 26-42 run up to their send
RecvInit(c, text) ==
    /\ pc[c] = "recv25"
    /\ open[c]
    /\ LoopFree(c)
    /\ nrecv[c] < MaxMsgs
    /\ Received(c, text)
    /\ Enter(c, HandshakeBody(text))
    /\ UNCHANGED open

\* line 25 raises ConnectionClosed, which nothing in handle() catches
RecvInitClosed(c) ==
    /\ pc[c] = "recv25"
    /\ ~open[c]
    /\ LoopFree(c)
    /\ Enter(c, Raise("ConnectionClosed"))
    /\ UNCHANGED <<open, cur, reply, res, tries, called, nrecv, prev>>

\* line 47 returns a text; lines 51-132 run up to their send, to the
\* backend call, or to an exception
Recv(c, text) ==
    /\ pc[c] = "recv47"
    /\ open[c]
    /\ LoopFree(c)
    /\ nrecv[c] < MaxMsgs
    /\ Received(c, text)
    /\ Enter(c, ServeBody(text))
    /\ UNCHANGED open

\* the loop's receive with no except clause: ConnectionClosed leaves handle()
RecvClosedUncaught(c) ==
    /\ pc[c] = "recv47"
    /\ ~open[c]
    /\ LoopFree(c)
    /\ pc' = [pc EXCEPT ![c] = "raised"]
    /\ err' = [err EXCEPT ![c] = "ConnectionClosed"]
    /\ UNCHANGED <<open, cur, frame, out, reply, res, tries, called, nrecv, prev>>

\* lines 48-49: ConnectionClosed at the loop's receive breaks the loop
RecvClosed(c) ==
    /\ pc[c] = "recv47"
    /\ ~open[c]
    /\ LoopFree(c)
    /\ pc' = [pc EXCEPT ![c] = "returned"]
    /\ UNCHANGED <<open, cur, frame, out, err, reply, res, tries, called, nrecv, prev>>

\* lines 94-113: the call returns and the success envelope is handed to send
BackendReturn(c, chat) ==
    /\ pc[c] = "call94"
    /\ called' = [called EXCEPT ![c] = TRUE]
    /\ reply' = [reply EXCEPT ![c] = [status |-> "ok", chat |-> chat]]
    /\ pc' = [pc EXCEPT ![c] = "send104"]
    /\ out' = [out EXCEPT ![c] =
                   SuccessResult(frame[c].req_id, chat.text, frame[c].format_,
                                 chat.usage)]
    /\ UNCHANGED <<open, cur, frame, err, res, tries, nrecv, prev>>

\* lines 94-103 raise; lines 114-124 hand the LLMError envelope to send
BackendRaise(c, e) ==
    /\ pc[c] = "call94"
    /\ called' = [called EXCEPT ![c] = TRUE]
    /\ reply' = [reply EXCEPT ![c] = [status |-> "raised", e |-> e]]
    /\ pc' = [pc EXCEPT ![c] = "send115"]
    /\ out' = [out EXCEPT ![c] = LLMErrorResult(frame[c].req_id, e)]
    /\ UNCHANGED <<open, cur, frame, err, res, tries, nrecv, prev>>

\* an awaited ws.send completes
SendDone(c) ==
    /\ pc[c] \in SendPcs
    /\ open[c]
    /\ LoopFree(c)
    /\ res' = [res EXCEPT ![c] = Append(@, out[c])]
    /\ tries' = [tries EXCEPT ![c] = @ + 1]
    /\ pc' = [pc EXCEPT ![c] = AfterSend(pc[c])]
    /\ out' = [out EXCEPT ![c] = NoEnv]
    /\ UNCHANGED <<open, cur, frame, err, reply, called, nrecv, prev>>

\* the ws.send of line 104 raises ConnectionClosed inside the try of line 92:
\* the handler of line 114 catches it and attempts the send of line 115
SendClosedInTry(c, e) ==
    /\ pc[c] = "send104"
    /\ ~open[c]
    /\ LoopFree(c)
    /\ tries' = [tries EXCEPT ![c] = @ + 1]
    /\ pc' = [pc EXCEPT ![c] = "send115"]
    /\ out' = [out EXCEPT ![c] = LLMErrorResult(frame[c].req_id, e)]
    /\ UNCHANGED <<open, cur, frame, err, reply, res, called, nrecv, prev>>

\* any other ws.send raises ConnectionClosed, which leaves handle()
SendClosed(c) ==
    /\ pc[c] \in SendPcs \ {"send104"}
    /\ ~open[c]
    /\ LoopFree(c)
    /\ tries' = [tries EXCEPT ![c] = @ + 1]
    /\ pc' = [pc EXCEPT ![c] = "raised"]
    /\ err' = [err EXCEPT ![c] = "ConnectionClosed"]
    /\ out' = [out EXCEPT ![c] = NoEnv]
    /\ UNCHANGED <<open, cur, frame, reply, res, called, nrecv, prev>>

(***************************************************************************)
(* Specifications.  Spec follows one session over every message of         *)
(* Messages.                                                               *)
(***************************************************************************)
Next ==
    \/ \E c \in Sessions : Accept(c)
    \/ \E c \in Sessions : ClientClose(c)
    \/ \E c \in Sessions, text \in Messages : RecvInit(c, text)
    \/ \E c \in Sessions : RecvInitClosed(c)
    \/ \E c \in Sessions, text \in Messages : Recv(c, text)
    \/ \E c \in Sessions : RecvClosed(c)
    \/ \E c \in Sessions, chat \in Completions : BackendReturn(c, chat)
    \/ \E c \in Sessions, e \in BackendErrors : BackendRaise(c, e)
    \/ \E c \in Sessions : SendDone(c)
    \/ \E c \in Sessions, e \in ClosedErrors : SendClosedInTry(c, e)
    \/ \E c \in Sessions : SendClosed(c)

Spec == Init /\ [][Next]_vars

(***************************************************************************)
(* SpecLive adds the scheduling: the event loop runs every task that can   *)
(* take a step (a receive or send that the transport has completed or      *)
(* refused), and a backend call that was made returns or raises.  What the *)
(* peer does (sending a text, closing) is not forced.                      *)
(***************************************************************************)
TaskStep(c) ==
    \/ RecvInitClosed(c)
    \/ RecvClosed(c)
    \/ \E chat \in Completions : BackendReturn(c, chat)
    \/ \E e \in BackendErrors : BackendRaise(c, e)
    \/ SendDone(c)
    \/ \E e \in ClosedErrors : SendClosedInTry(c, e)
    \/ SendClosed(c)

SpecLive == Spec /\ \A c \in Sessions : WF_vars(TaskStep(c))

(***************************************************************************)
(* SpecMulti runs every connection of Conns, the tasks sharing one event   *)
(* loop, over a few representative messages.                               *)
(***************************************************************************)
FewMessages ==
    {NotJSON,
     Text(MsgDict(JStr(<<"request">>), JStr(<<"r1">>), JStr(<<"ping">>), Absent)),
     Text(MsgDict(JStr(<<"request">>), JStr(<<"r1">>), JStr(<<"llm.generate">>),
                  HiParams))}
FewCompletions == {[text |-> JStr(<<"hello">>), usage |-> NoUsage]}
FewErrors == {[cls |-> "APIError", message |-> <<"boom">>, tb |-> MaxTraceLen]}
FewClosedErrors ==
    {[cls |-> "ConnectionClosed", message |-> <<"no close frame received or sent">>,
      tb |-> MaxTraceLen]}

NextMulti ==
    \/ \E c \in Conns : Accept(c)
    \/ \E c \in Conns : ClientClose(c)
    \/ \E c \in Conns, text \in FewMessages : RecvInit(c, text)
    \/ \E c \in Conns : RecvInitClosed(c)
    \/ \E c \in Conns, text \in FewMessages : Recv(c, text)
    \/ \E c \in Conns : RecvClosed(c)
    \/ \E c \in Conns, chat \in FewCompletions : BackendReturn(c, chat)
    \/ \E c \in Conns, e \in FewErrors : BackendRaise(c, e)
    \/ \E c \in Conns : SendDone(c)
    \/ \E c \in Conns, e \in FewClosedErrors : SendClosedInTry(c, e)
    \/ \E c \in Conns : SendClosed(c)

SpecMulti == Init /\ [][NextMulti]_vars

(***************************************************************************)
(* Vocabulary of the properties, read off the received text itself.        *)
(***************************************************************************)
InServeLoop(c) == nrecv[c] >= 2
IsObject(text) == text.wf /\ text.doc.kind = "object" /\ "type" \in DOMAIN text.doc
IsRequest(text) == IsObject(text) /\ text.doc.type = JStr(<<"request">>)
IsGenerate(text) == IsRequest(text) /\ text.doc.method = JStr(<<"llm.generate">>)
HasParamDict(text) == text.doc.params.kind = "object"
EchoedId(text) ==
    IF text.doc.id.kind = "absent" THEN JStr(<<"unknown">>) ELSE text.doc.id
BlankPrompts == {Absent, JStr(<<>>), JStr(<<SP, SP, SP>>)}
Uncoercible == {JStr(<<"abc">>), PyNone}
\* the dispatch of the text reaches line 83 with a prompt that passes it
GoodGenerate(text) ==
    /\ IsGenerate(text)
    /\ HasParamDict(text)
    /\ text.doc.params.prompt = JStr(<<"hi">>)
    /\ text.doc.params.temperature \notin Uncoercible

\* the session is in, or has completed, the one send that answers cur with env
Answering(c, label, env) ==
    /\ open[c] => pc[c] \in {label, "recv47"}
    /\ pc[c] = label => out[c] = env /\ res[c] = <<>>
    /\ pc[c] = "recv47" => res[c] = <<env>>
    /\ res[c] \in {<<>>, <<env>>}
    /\ tries[c] <= 1

(***************************************************************************)
(* C1.  After a successful handshake every message the serve loop receives *)
(* is answered by exactly one result before the next receive; only a       *)
(* closed transport leaves a message without its result.  (Fails: a JSON   *)
(* text that is not an object raises AttributeError at line 62.)           *)
(***************************************************************************)
C1_EveryMessageAnswered ==
    \A c \in Conns :
        (InServeLoop(c) /\ open[c]) =>
            /\ pc[c] \in SendPcs \cup {"call94", "recv47"}
            /\ pc[c] = "recv47" =>
                   Len(res[c]) = 1 /\ res[c][1].type = "result"
            /\ Len(res[c]) <= 1

(***************************************************************************)
(* C2.  A request for llm.generate with a non-blank string prompt whose    *)
(* backend call succeeded is answered by exactly one result: ok = true,    *)
(* the request's id, the backend's text, the requested format ("markdown"  *)
(* when none was requested) and the backend's usage as a mapping (the      *)
(* empty mapping when the backend reported none).                          *)
(***************************************************************************)
C2_Expected(c) ==
    LET m == cur[c].doc
        chat == reply[c].chat
    IN  [type |-> "result", id |-> EchoedId(cur[c]), ok |-> TRUE,
         data |-> [text |-> chat.text,
                   format |-> IF m.params.format = Absent
                              THEN JStr(<<"markdown">>) ELSE m.params.format,
                   usage |-> IF chat.usage.cls = "NoneType"
                             THEN [kind |-> "object", val |-> <<>>]
                             ELSE [kind |-> "object", val |-> <<>>,
                                   total_tokens |->
                                       [kind |-> "number",
                                        val |-> <<chat.usage.total_tokens>>]]]]

C2_GenerateSuccess ==
    \A c \in Conns :
        (InServeLoop(c) /\ reply[c].status = "ok") =>
            /\ GoodGenerate(cur[c])
            /\ open[c] => pc[c] \in {"send104", "recv47"}
            /\ pc[c] = "send104" => out[c] = C2_Expected(c) /\ res[c] = <<>>
            /\ pc[c] = "recv47" => res[c] = <<C2_Expected(c)>>
            /\ res[c] \in {<<>>, <<C2_Expected(c)>>}

C2_Witness ==
    \E c \in Conns :
        /\ pc[c] = "recv47"
        /\ cur[c] = Text(MsgDict(JStr(<<"request">>), JStr(<<"r1">>),
                                 JStr(<<"llm.generate">>), HiParams))
        /\ res[c] = <<[type |-> "result", id |-> JStr(<<"r1">>), ok |-> TRUE,
                       data |-> [text |-> JStr(<<"hello">>),
                                 format |-> JStr(<<"markdown">>),
                                 usage |-> [kind |-> "object", val |-> <<>>]]]>>

(***************************************************************************)
(* C3.  A request for llm.generate whose prompt is "", all whitespace or   *)
(* absent is answered, whatever its other params, by BadRequest "prompt is *)
(* required" with its id; the backend is not invoked and the loop goes on. *)
(* (Fails: the temperature is coerced at line 80, before the prompt is     *)
(* looked at, and outside any try.)                                        *)
(***************************************************************************)
C3_BlankPromptRejected ==
    \A c \in Conns :
        (/\ InServeLoop(c)
         /\ IsGenerate(cur[c])
         /\ HasParamDict(cur[c])
         /\ cur[c].doc.params.prompt \in BlankPrompts) =>
            /\ ~called[c]
            /\ pc[c] # "call94"
            /\ Answering(c, "send84",
                         ErrorResult(EchoedId(cur[c]), "BadRequest",
                                     <<"prompt is required">>))

(***************************************************************************)
(* C4.  A request whose method is not "llm.generate" (a missing method     *)
(* included) is answered by one NoSuchMethod result with its id and the    *)
(* message "Unknown method {method}"; the backend is not invoked and the   *)
(* session stays in the serve loop.                                        *)
(***************************************************************************)
C4_MethodText(text) ==
    IF text.doc.method.kind = "absent" THEN <<"None">> ELSE text.doc.method.val

C4_UnknownMethod ==
    \A c \in Conns :
        (InServeLoop(c) /\ IsRequest(cur[c]) /\ ~IsGenerate(cur[c])) =>
            /\ ~called[c]
            /\ pc[c] # "call94"
            /\ Answering(c, "send127",
                         [type |-> "result", id |-> EchoedId(cur[c]), ok |-> FALSE,
                          error |-> [code |-> "NoSuchMethod",
                                     message |-> <<"Unknown method ">>
                                                 \o C4_MethodText(cur[c])]])

\* a request is answered on a connection that answered NoSuchMethod before
C4_Witness ==
    \E c \in Conns :
        /\ prev[c] = "NoSuchMethod"
        /\ nrecv[c] = 3
        /\ pc[c] = "recv47"
        /\ Len(res[c]) = 1
        /\ res[c][1].ok

(***************************************************************************)
(* C5.  When the first text of a connection is not JSON, the session sends *)
(* exactly one result (id "init", ok = false, code "BadJSON") and ends: no *)
(* ready announcement, no serve loop, no further receive or send, no       *)
(* backend call.                                                           *)
(***************************************************************************)
C5_InitError ==
    ErrorResult(JStr(<<"init">>), "BadJSON", <<"Initialize must be JSON">>)

C5_BadHandshake(c) == nrecv[c] = 1 /\ ~cur[c].wf

C5_HandshakeBadJSONFatal ==
    /\ [](\A c \in Conns :
            C5_BadHandshake(c) =>
                /\ pc[c] \in {"send29", "returned", "raised"}
                /\ pc[c] = "send29" => out[c] = C5_InitError /\ res[c] = <<>>
                /\ pc[c] = "returned" => res[c] = <<C5_InitError>>
                /\ pc[c] = "raised" => ~open[c] /\ res[c] = <<>>
                /\ open[c] => pc[c] \in {"send29", "returned"}
                /\ tries[c] <= 1
                /\ ~called[c])
    /\ [][\A c \in Conns :
            C5_BadHandshake(c) =>
                /\ C5_BadHandshake(c)'
                /\ pc[c] \in EndPcs =>
                       /\ pc'[c] = pc[c]
                       /\ res'[c] = res[c]
                       /\ tries'[c] = tries[c]]_vars

C5_Witness ==
    \E c \in Conns :
        /\ C5_BadHandshake(c)
        /\ pc[c] = "returned"
        /\ res[c] = <<C5_InitError>>
        /\ open[c]

(***************************************************************************)
(* C6.  When a text received in the serve loop is not JSON, the session    *)
(* sends exactly one result (id "unknown", ok = false, code "BadJSON"),    *)
(* does not invoke the backend and goes back to receiving.                 *)
(***************************************************************************)
C6_LoopBadJSONContinues ==
    \A c \in Conns :
        (InServeLoop(c) /\ ~cur[c].wf) =>
            /\ ~called[c]
            /\ pc[c] # "call94"
            /\ Answering(c, "send54",
                         [type |-> "result", id |-> JStr(<<"unknown">>),
                          ok |-> FALSE,
                          error |-> [code |-> "BadJSON",
                                     message |-> <<"Request must be JSON">>]])

\* a later message is answered on a connection that answered BadJSON before
C6_Witness ==
    \E c \in Conns :
        /\ prev[c] = "BadJSON"
        /\ nrecv[c] = 3
        /\ pc[c] = "recv47"
        /\ Len(res[c]) = 1

(***************************************************************************)
(* C7.  When the backend call of a request fails, the session sends one    *)
(* result with the request's id, ok = false, code "LLMError", the          *)
(* failure's message and the last lines of the trace, five at most, and    *)
(* goes back to receiving.                                                 *)
(***************************************************************************)
C7_IsLLMError(c, env) ==
    LET e == reply[c].e
        n == IF e.tb < 5 THEN e.tb ELSE 5
    IN  /\ env.type = "result"
        /\ env.id = EchoedId(cur[c])
        /\ env.ok = FALSE
        /\ env.error.code = "LLMError"
        /\ env.error.message = e.message
        /\ Len(env.error.trace) = n
        /\ \A i \in 1..n : env.error.trace[i] = e.tb - n + i

C7_BackendFailureReported ==
    \A c \in Conns :
        (InServeLoop(c) /\ reply[c].status = "raised") =>
            /\ GoodGenerate(cur[c])
            /\ open[c] => pc[c] \in {"send115", "recv47"}
            /\ pc[c] = "send115" => C7_IsLLMError(c, out[c]) /\ res[c] = <<>>
            /\ pc[c] = "recv47" => Len(res[c]) = 1
            /\ Len(res[c]) <= 1
            /\ \A i \in 1..Len(res[c]) : C7_IsLLMError(c, res[c][i])
            /\ tries[c] <= 1

C7_Witness ==
    \E c \in Conns :
        /\ reply[c].status = "raised"
        /\ reply[c].e.tb > 5
        /\ pc[c] = "recv47"
        /\ Len(res[c]) = 1
        /\ Len(res[c][1].error.trace) = 5

(***************************************************************************)
(* C8.  A request for llm.generate whose temperature cannot be coerced to  *)
(* a float is answered by one LLMError result with its id, and the         *)
(* connection stays open for later requests.  (Fails: float() at line 80   *)
(* is outside the try of line 92.)                                         *)
(***************************************************************************)
C8_IsLLMErrorFor(c, env) ==
    /\ env.type = "result"
    /\ env.id = EchoedId(cur[c])
    /\ env.ok = FALSE
    /\ env.error.code = "LLMError"

C8_BadTemperatureReported ==
    \A c \in Conns :
        (/\ InServeLoop(c)
         /\ IsGenerate(cur[c])
         /\ HasParamDict(cur[c])
         /\ cur[c].doc.params.temperature \in Uncoercible) =>
            /\ open[c] => pc[c] \in {"send115", "recv47"}
            /\ pc[c] = "recv47" =>
                   Len(res[c]) = 1 /\ C8_IsLLMErrorFor(c, res[c][1])

(***************************************************************************)
(* C9.  A failure while dispatching a decoded request of type "request"    *)
(* (params that is not a mapping, a prompt that is not a string) is turned *)
(* into one LLMError result with the request's id, and the session goes    *)
(* back to receiving.  (Fails: lines 77 and 83 are outside the try.)       *)
(***************************************************************************)
C9_DispatchFailureReported ==
    \A c \in Conns :
        (/\ InServeLoop(c)
         /\ IsGenerate(cur[c])
         /\ \/ cur[c].doc.params = PyNone
            \/ /\ HasParamDict(cur[c])
               /\ cur[c].doc.params.prompt \in {JNum("5"), PyNone}
               /\ cur[c].doc.params.temperature \notin Uncoercible) =>
            /\ open[c] => pc[c] \in {"send115", "recv47"}
            /\ pc[c] = "recv47" =>
                   /\ Len(res[c]) = 1
                   /\ res[c][1].id = EchoedId(cur[c])
                   /\ ~res[c][1].ok
                   /\ res[c][1].error.code = "LLMError"

(***************************************************************************)
(* C10.  No error escapes a connection's task: whatever is received and    *)
(* wherever the transport closes, handle() ends by returning.  (Fails:     *)
(* ConnectionClosed is caught at line 48 only.)                            *)
(***************************************************************************)
C10_NoErrorEscapes == \A c \in Conns : pc[c] # "raised" /\ err[c] = "none"

(***************************************************************************)
(* C11.  Every decoded message of the serve loop whose type is not         *)
(* "request" (a missing type included, whatever its method) is answered by *)
(* one BadRequest result "Expected type=request" with the message's id     *)
(* ("unknown" when it has none); the backend is not invoked and the loop   *)
(* goes on.  (Fails for a decoded document that is not an object: line 62  *)
(* raises AttributeError.)                                                 *)
(***************************************************************************)
C11_IdOf(text) ==
    IF text.doc.kind = "object" /\ text.doc.id.kind # "absent"
    THEN text.doc.id ELSE JStr(<<"unknown">>)

C11_NotARequest ==
    \A c \in Conns :
        (InServeLoop(c) /\ cur[c].wf /\ ~IsRequest(cur[c])) =>
            /\ ~called[c]
            /\ pc[c] # "call94"
            /\ Answering(c, "send63",
                         [type |-> "result", id |-> C11_IdOf(cur[c]), ok |-> FALSE,
                          error |-> [code |-> "BadRequest",
                                     message |-> <<"Expected type=request">>]])

(***************************************************************************)
(* C12.  On a connection whose first text decodes as JSON the ready        *)
(* announcement {type "ready", server, capabilities ["llm.generate"]} is   *)
(* sent exactly once: it is the first thing sent, it is sent before any    *)
(* request is read, and it is never sent again.                            *)
(***************************************************************************)
C12_Ready ==
    [type |-> "ready", server |-> [kind |-> "string", val |-> <<"sample-mcp-server">>],
     capabilities |-> <<[kind |-> "string", val |-> <<"llm.generate">>]>>]

C12_ReadyOnce ==
    \A c \in Conns :
        /\ (nrecv[c] = 1 /\ cur[c].wf) =>
               /\ open[c] => pc[c] \in {"send38", "recv47"}
               /\ pc[c] = "send38" => out[c] = C12_Ready /\ res[c] = <<>>
               /\ pc[c] = "recv47" => res[c] = <<C12_Ready>>
               /\ res[c] \in {<<>>, <<C12_Ready>>}
               /\ tries[c] <= 1
        /\ nrecv[c] = 2 => prev[c] = "ready"
        /\ nrecv[c] >= 2 =>
               /\ out[c].type # "ready"
               /\ \A i \in 1..Len(res[c]) : res[c][i].type # "ready"
        /\ nrecv[c] >= 3 => prev[c] # "ready"

C12_Witness ==
    \E c \in Conns :
        /\ nrecv[c] = 3
        /\ pc[c] = "recv47"
        /\ Len(res[c]) = 1
        /\ res[c][1].type = "result"

(***************************************************************************)
(* C13.  Within one connection work is strictly sequential: the response   *)
(* to a request is sent before the next request is read, at most one       *)
(* request (and one backend call) is in flight, and responses leave in the *)
(* order of the requests.                                                  *)
(***************************************************************************)
C13_Sequential ==
    /\ [](\A c \in Conns :
            /\ Len(res[c]) <= 1
            /\ pc[c] = "call94" => res[c] = <<>> /\ tries[c] = 0 /\ ~called[c]
            /\ called[c] => pc[c] # "call94")
    /\ [][\A c \in Conns :
            /\ nrecv'[c] # nrecv[c] =>
                   /\ nrecv'[c] = nrecv[c] + 1
                   /\ pc[c] \in RecvPcs
                   /\ nrecv[c] >= 1 => Len(res[c]) = 1 /\ tries[c] = 1
                   /\ nrecv[c] >= 2 =>
                          /\ res[c][1].type = "result"
                          /\ IsObject(cur[c]) => res[c][1].id = EchoedId(cur[c])
            /\ cur'[c] # cur[c] => nrecv'[c] # nrecv[c]
            /\ (called'[c] /\ ~called[c]) => pc[c] = "call94"]_vars

C13_Witness ==
    \E c \in Conns :
        /\ nrecv[c] = 3
        /\ prev[c] = "BadRequest"
        /\ called[c]
        /\ pc[c] = "recv47"
        /\ Len(res[c]) = 1
        /\ Kind(res[c][1]) = "ok"

(***************************************************************************)
(* C14.  A backend call in progress on one connection stalls only that     *)
(* connection: the tasks of the other connections can still receive and    *)
(* send while the call is outstanding.  (Fails: the call of line 94 is a   *)
(* synchronous call made inside the coroutine, so the event loop runs no   *)
(* other task until it returns.)                                           *)
(***************************************************************************)
C14_OthersNotStalled ==
    \A c \in Conns, d \in Conns :
        (c # d /\ pc[c] = "call94" /\ open[d]) =>
            /\ pc[d] \in SendPcs => ENABLED SendDone(d)
            /\ (pc[d] = "recv47" /\ nrecv[d] < MaxMsgs) =>
                   ENABLED (\E text \in FewMessages : Recv(d, text))

(***************************************************************************)
(* C15.  No state leaks from one request to the next: the result sent for  *)
(* a message is a function of that message and of the backend's answer to  *)
(* it alone, whatever was received before; the same valid llm.generate     *)
(* request sent twice gets two results with its id, equal when the backend *)
(* answers equally.                                                        *)
(***************************************************************************)
C15_Fail(id, code, message) ==
    [type |-> "result", id |-> id, ok |-> FALSE,
     error |-> [code |-> code, message |-> message]]

C15_Trace(e) ==
    LET n == IF e.tb < 5 THEN e.tb ELSE 5 IN [i \in 1..n |-> e.tb - n + i]

\* the result owed to a text, given what the backend answered to it
C15_Answer(text, rep) ==
    IF ~text.wf
    THEN C15_Fail(JStr(<<"unknown">>), "BadJSON", <<"Request must be JSON">>)
    ELSE IF ~IsRequest(text)
    THEN C15_Fail(EchoedId(text), "BadRequest", <<"Expected type=request">>)
    ELSE IF ~IsGenerate(text)
    THEN C15_Fail(EchoedId(text), "NoSuchMethod",
                  <<"Unknown method ">> \o C4_MethodText(text))
    ELSE IF rep.status = "none"
    THEN C15_Fail(EchoedId(text), "BadRequest", <<"prompt is required">>)
    ELSE IF rep.status = "raised"
    THEN [type |-> "result", id |-> EchoedId(text), ok |-> FALSE,
          error |-> [code |-> "LLMError", message |-> rep.e.message,
                     trace |-> C15_Trace(rep.e)]]
    ELSE [type |-> "result", id |-> EchoedId(text), ok |-> TRUE,
          data |-> [text |-> rep.chat.text,
                    format |-> IF text.doc.params.format = Absent
                               THEN JStr(<<"markdown">>)
                               ELSE text.doc.params.format,
                    usage |-> IF rep.chat.usage.cls = "NoneType"
                              THEN [kind |-> "object", val |-> <<>>]
                              ELSE [kind |-> "object", val |-> <<>>,
                                    total_tokens |->
                                        [kind |-> "number",
                                         val |-> <<rep.chat.usage.total_tokens>>]]]]

C15_NoLeakage ==
    \A c \in Conns :
        InServeLoop(c) =>
            /\ res[c] # <<>> => res[c] = <<C15_Answer(cur[c], reply[c])>>
            /\ pc[c] = "recv47" => res[c] # <<>>

\* a valid request answered ok on a connection whose request before was too
C15_Witness ==
    \E c \in Conns :
        /\ nrecv[c] = 3
        /\ prev[c] = "ok"
        /\ pc[c] = "recv47"
        /\ cur[c] = Text(MsgDict(JStr(<<"request">>), JStr(<<"r1">>),
                                 JStr(<<"llm.generate">>), HiParams))
        /\ res[c] = <<C15_Answer(cur[c], [status |-> "ok",
                                           chat |-> [text |-> JStr(<<"hello">>),
                                                     usage |-> NoUsage]])>>

(***************************************************************************)
(* C16.  Closed is terminal: once the transport has reported closure to    *)
(* the session, at a receive or at a send, handle() attempts no further    *)
(* send; a closure reported while the success result is being sent is not  *)
(* followed by another send.  (Fails: the send of line 104 is inside the   *)
(* try of line 92, whose handler sends again at line 115.)                 *)
(***************************************************************************)
\* a send of the current turn was refused: attempted and not delivered
C16_SendRefused(c) == tries[c] > Len(res[c])

\* no task is suspended in a send after a send of its turn was refused
C16_ClosedIsTerminal ==
    \A c \in Conns : C16_SendRefused(c) => pc[c] \notin SendPcs /\ tries[c] = 1

(***************************************************************************)
(* C17.  When the transport reports closure at a receive of the serve      *)
(* loop, handle() leaves the loop, sends nothing and returns; so, every    *)
(* backend call returning or failing, a session whose transport has been   *)
(* closed eventually ends.                                                 *)
(***************************************************************************)
C17_ClosedAtLoopReceive(c) == pc[c] = "recv47" /\ ~open[c]

C17_CloseEndsSession ==
    /\ [][\A c \in Conns :
            C17_ClosedAtLoopReceive(c) =>
                /\ pc'[c] \in {"recv47", "returned"}
                /\ res'[c] = res[c]
                /\ tries'[c] = tries[c]
                /\ out'[c] = NoEnv
                /\ err'[c] = "none"]_vars
    /\ \A c \in Sessions :
            (pc[c] # "idle" /\ ~open[c]) ~> (pc[c] \in EndPcs)
    /\ \A c \in Sessions : C17_ClosedAtLoopReceive(c) ~> (pc[c] = "returned")

C17_Witness ==
    \E c \in Conns :
        /\ pc[c] = "returned"
        /\ ~open[c]
        /\ InServeLoop(c)
        /\ err[c] = "none"
        /\ Len(res[c]) = 1

(***************************************************************************)
(* C18.  Correlation is kept on every result path: for a decoded object    *)
(* received in the serve loop, the id of the result sent for it is the     *)
(* message's own id, or "unknown" when it has none; absent params count as *)
(* the empty mapping.                                                      *)
(***************************************************************************)
C18_Id(text) ==
    IF text.doc.id = [kind |-> "absent", val |-> <<>>]
    THEN [kind |-> "string", val |-> <<"unknown">>]
    ELSE text.doc.id

C18_Correlated ==
    \A c \in Conns :
        (InServeLoop(c) /\ IsObject(cur[c])) =>
            /\ \A i \in 1..Len(res[c]) :
                   res[c][i].type = "result" /\ res[c][i].id = C18_Id(cur[c])
            /\ pc[c] \in SendPcs =>
                   out[c].type = "result" /\ out[c].id = C18_Id(cur[c])
            /\ pc[c] = "call94" => frame[c].req_id = C18_Id(cur[c])
            /\ (IsGenerate(cur[c]) /\ cur[c].doc.params = Absent) =>
                   /\ pc[c] # "raised" \/ err[c] = "ConnectionClosed"
                   /\ pc[c] = "recv47" =>
                          /\ Len(res[c]) = 1
                          /\ Kind(res[c][1]) = "BadRequest"
                          /\ res[c][1].error.message = <<"prompt is required">>

\* a success result carrying "unknown" for a request that had no id
C18_Witness ==
    \E c \in Conns :
        /\ InServeLoop(c)
        /\ IsGenerate(cur[c])
        /\ cur[c].doc.id = Absent
        /\ pc[c] = "recv47"
        /\ Len(res[c]) = 1
        /\ res[c][1].ok
        /\ res[c][1].id = JStr(<<"unknown">>)

(***************************************************************************)
(* C19.  The first text of a connection is consumed by the handshake and   *)
(* never dispatched: even when it is a well-formed llm.generate request,   *)
(* no result envelope is sent for it and no backend call is made; the only *)
(* thing sent in answer is the ready announcement.                         *)
(***************************************************************************)
C19_FirstTextNotDispatched ==
    \A c \in Conns :
        (nrecv[c] = 1 /\ cur[c].wf) =>
            /\ ~called[c]
            /\ reply[c] = NoReply
            /\ frame[c] = NoFrame
            /\ pc[c] \in {"send38", "recv47", "returned", "raised"}
            /\ pc[c] \in EndPcs => ~open[c]
            /\ pc[c] = "raised" => err[c] = "ConnectionClosed"
            /\ out[c].type \in {"none", "ready"}
            /\ \A i \in 1..Len(res[c]) : res[c][i].type = "ready"
            /\ tries[c] <= 1

C19_Witness ==
    \E c \in Conns :
        /\ nrecv[c] = 1
        /\ cur[c] = Text(MsgDict(JStr(<<"request">>), JStr(<<"r1">>),
                                 JStr(<<"llm.generate">>), HiParams))
        /\ pc[c] = "recv47"
        /\ Len(res[c]) = 1
        /\ res[c][1].type = "ready"

(***************************************************************************)
(* C20.  An LLMError result is sent for a request only when the backend    *)
(* call for it failed: once the call has returned, the result is the       *)
(* ok = true result and exactly one send is attempted for it.  (Fails: a   *)
(* ConnectionClosed raised by the send of line 104 is caught at line 114,  *)
(* which builds an LLMError envelope and sends again.)                     *)
(***************************************************************************)
C20_IsLLMError(env) ==
    env.type = "result" /\ ~env.ok /\ env.error.code = "LLMError"

C20_LLMErrorOnlyOnBackendFailure ==
    \A c \in Conns :
        /\ (pc[c] \in SendPcs /\ C20_IsLLMError(out[c])) =>
               reply[c].status = "raised"
        /\ \A i \in 1..Len(res[c]) :
               C20_IsLLMError(res[c][i]) => reply[c].status = "raised"
        /\ reply[c].status = "ok" =>
               /\ tries[c] + (IF pc[c] \in SendPcs THEN 1 ELSE 0) <= 1
               /\ pc[c] \in SendPcs => out[c].ok

====
